---------------------------- MODULE Spec2Model ----------------------------
(***************************************************************************)
(* A model of the printf-style renderer of acpica-rs (format.rs):          *)
(* CFmtConverter::fmt walks the format text, copies literal characters,    *)
(* parses each directive (flags, width, precision), pulls its arguments    *)
(* from the variadic argument list and writes the rendered text.           *)
(*                                                                         *)
(* Characters are one-character strings, texts are sequences of them.      *)
(* An Option<usize> is a sequence: <<>> is None, <<n>> is Some(n).         *)
(*                                                                         *)
(* Spec renders into a sink that accepts every write, SpecSink into one    *)
(* that refuses a write, SpecRepeat renders the same converter again.       *)
(* SpecOnce is the registration of the OS services                         *)
(* implementation (lib.rs): threads calling                                *)
(* set_os_services_implementation and current_os_services_implementation   *)
(* on the Once that holds it.                                              *)
(***************************************************************************)
EXTENDS Integers, Sequences, FiniteSets, TLC

\* --------------------------------------------------------------------
\* Bounds of the explored inputs
\* --------------------------------------------------------------------

\* Longest format text made of literal characters only.
MaxLitLen == 3

\* Longest enumerated string buffer handed to %s (in bytes).
MaxBufLen == 2

\* Most writes a failing sink accepts before it refuses one.
MaxSinkWrites == 3

\* Most renders of one converter.
MaxRenders == 2

\* Threads that call set_os_services_implementation and
\* current_os_services_implementation.
NumThreads == 3

\* --------------------------------------------------------------------
\* Sequences and characters
\* --------------------------------------------------------------------

NoChar == "<eof>"

Max(a, b) == IF a >= b THEN a ELSE b

Min(a, b) == IF a <= b THEN a ELSE b

Rep(c, n) == [i \in 1..n |-> c]

RECURSIVE Flatten(_)
Flatten(ss) == IF ss = <<>> THEN <<>> ELSE Head(ss) \o Flatten(Tail(ss))

SeqsUpTo(S, n) == UNION {[1..k -> S] : k \in 0..n}

DigitChars == <<"0", "1", "2", "3", "4", "5", "6", "7", "8", "9">>

LowerDigits == DigitChars \o <<"a", "b", "c", "d", "e", "f">>

UpperDigits == DigitChars \o <<"A", "B", "C", "D", "E", "F">>

\* char::is_ascii_digit
is_ascii_digit(c) == \E i \in 1..10 : DigitChars[i] = c

\* c as usize - '0' as usize
DigitValue(c) == (CHOOSE i \in 1..10 : DigitChars[i] = c) - 1

\* isize::unsigned_abs
unsigned_abs(v) == IF v < 0 THEN 0 - v ELSE v

\* usize::saturating_sub
saturating_sub(a, b) == IF a >= b THEN a - b ELSE 0

\* usize::checked_ilog(base), as an Option
RECURSIVE ilog(_, _)
ilog(value, base) == IF value < base THEN 0 ELSE 1 + ilog(value \div base, base)

checked_ilog(value, base) == IF value = 0 THEN <<>> ELSE <<ilog(value, base)>>

unwrap_or(opt, dflt) == IF opt = <<>> THEN dflt ELSE opt[1]

\* The digits core::fmt writes for an unsigned value ({}, {:o}, {:x}, {:X}).
RECURSIVE Digits(_, _, _)
Digits(value, radix, table) ==
    IF value < radix THEN <<table[value + 1]>>
    ELSE Digits(value \div radix, radix, table) \o <<table[(value % radix) + 1]>>

\* core::fmt's {:0>width$}: fill '0', right aligned, minimum width.
ZeroFill(text, width) == Rep("0", saturating_sub(width, Len(text))) \o text

\* The character of an ASCII code (the codes the inputs use).
Chr(b) ==
    CASE b = 37 -> "%"
      [] b = 97 -> "a"
      [] b = 98 -> "b"
      [] b = 99 -> "c"
      [] b = 101 -> "e"
      [] b = 104 -> "h"
      [] b = 108 -> "l"
      [] b = 111 -> "o"
      [] OTHER -> "?"

\* The UTF-8 encoding of a character.
Utf8Bytes(c) ==
    CASE c = "%" -> <<37>>
      [] c = "a" -> <<97>>
      [] c = "b" -> <<98>>
      [] c = "c" -> <<99>>
      [] c = "e" -> <<101>>
      [] c = "h" -> <<104>>
      [] c = "l" -> <<108>>
      [] c = "o" -> <<111>>
      [] c = "é" -> <<195, 169>>
      [] OTHER -> <<63>>

RECURSIVE Utf8Encode(_)
Utf8Encode(text) ==
    IF text = <<>> THEN <<>> ELSE Utf8Bytes(Head(text)) \o Utf8Encode(Tail(text))

IsContinuation(b) == b >= 128 /\ b <= 191

IsLead2(b) == b >= 194 /\ b <= 223

\* core::str::from_utf8 on the byte values the inputs use: <<TRUE, text>> or
\* <<FALSE, <<>>>>.
RECURSIVE from_utf8(_)
from_utf8(bytes) ==
    IF bytes = <<>> THEN <<TRUE, <<>>>>
    ELSE IF Head(bytes) < 128
    THEN LET rest == from_utf8(Tail(bytes))
         IN  <<rest[1], IF rest[1] THEN <<Chr(Head(bytes))>> \o rest[2] ELSE <<>>>>
    ELSE IF IsLead2(Head(bytes)) /\ Len(bytes) >= 2 /\ IsContinuation(bytes[2])
    THEN LET rest == from_utf8(Tail(Tail(bytes)))
         IN  <<rest[1], IF rest[1] THEN <<"é">> \o rest[2] ELSE <<>>>>
    ELSE <<FALSE, <<>>>>


\* --------------------------------------------------------------------
\* Inputs: format texts and argument values
\* --------------------------------------------------------------------

\* Values a c_int slot of the argument list may hold.
CInts == {-5, 0, 3, 5, 12}

\* Values a c_uint slot may hold.
CUInts == {0, 8, 255}

\* Values a c_char slot may hold.
CChars == {-61, 37, 97}

\* Addresses a pointer slot may hold.
Pointers == {0, 4096}

ByteVals == {0, 97, 169, 195}

\* The buffers a string slot may point to: every byte string up to MaxBufLen,
\* "hello" and "a\u00e9" with their terminators, and "abc" with none.
Buffers ==
    SeqsUpTo(ByteVals, MaxBufLen)
        \cup {<<104, 101, 108, 108, 111, 0>>, <<97, 98, 99>>, <<97, 195, 169, 0>>}

HasNul(buf) == \E i \in 1..Len(buf) : buf[i] = 0

\* printf's contract on a %s argument: a terminated string, or at least
\* `precision` readable bytes.
ValidCString(buf, precision) ==
    HasNul(buf) \/ (precision # <<>> /\ Len(buf) >= precision[1])

LitChars == {"a", "5", "-", "."}

LitFormats == SeqsUpTo(LitChars, MaxLitLen)

FlagStrs ==
    {<<>>, <<"-">>, <<"+">>, <<" ">>, <<"#">>, <<"0">>,
     <<"-", "0">>, <<"+", " ">>, <<"0", "-">>, <<"#", "0">>}

WidthStrs == {<<>>, <<"5">>, <<"8">>, <<"1", "2">>, <<"*">>}

PrecStrs == {<<>>, <<".">>, <<".", "0">>, <<".", "2">>, <<".", "3">>, <<".", "*">>}

ConvStrs ==
    {<<>>, <<"d">>, <<"i">>, <<"u">>, <<"o">>, <<"x">>, <<"X">>, <<"c">>,
     <<"s">>, <<"p">>, <<"%">>, <<"y">>, <<"n">>, <<"l">>, <<"f">>}

MkDirective(f, w, p, c) == <<"%">> \o f \o w \o p \o c

SingleDirectives ==
    {MkDirective(f, w, p, c) :
        f \in FlagStrs, w \in WidthStrs, p \in PrecStrs, c \in ConvStrs}

Pres == {<<"a">>, <<"%", "%">>, <<"%", "u">>, <<"a", "%", "%">>, <<"%", "*", "c">>}

Posts == {<<"b">>, <<"%", "%">>, <<"%", "p">>, <<"%", "%", "5">>, <<"%", ".", "*", "x">>}

CoreDirectives ==
    {<<"%", "%">>, <<"%", "d">>, <<"%", "*", "d">>, <<"%", ".", "*", "i">>,
     <<"%", "*", ".", "*", "x">>, <<"%", "s">>,
     <<"%", "c">>, <<"%", "p">>, <<"%", "y">>, <<"%">>, <<"%", "5", "%">>,
     <<"%", "-", "%">>, <<"%", "-", "5", "d">>, <<"%", "#", "o">>, <<"%", "n">>}

Sandwiches ==
    {a \o d \o b : a \in Pres \cup {<<>>}, d \in CoreDirectives, b \in Posts \cup {<<>>}}

\* The letters match_formatter names only to reject them: n, the length
\* modifiers and the floating-point conversions.
UnsupportedLetters ==
    {"n", "h", "l", "j", "z", "t", "L", "f", "F", "e", "E", "a", "A", "g", "G"}

\* Each rejected letter, alone and after a dynamic width and precision.
UnsupportedDirectives ==
    {MkDirective(<<>>, w, p, <<c>>) :
        w \in {<<>>, <<"*">>}, p \in {<<>>, <<".", "*">>}, c \in UnsupportedLetters}

\* Directives at the edges of the integer renderer: precision 1 spelled out.
EdgeDirectives ==
    {<<"%", ".", "1", "o">>, <<"%", "#", ".", "1", "o">>, <<"%", "#", ".", "1", "x">>,
     <<"%", ".", "1", "d">>}

\* The format texts rendered into a sink that may refuse a write.
SinkFormats ==
    LitFormats \cup Sandwiches
        \cup {MkDirective(f, w, p, c) :
                 f \in {<<>>, <<"-">>, <<"+">>, <<"#">>, <<"0">>},
                 w \in {<<>>, <<"5">>, <<"*">>},
                 p \in {<<>>, <<".", "3">>},
                 c \in {<<"d">>, <<"o">>, <<"x">>, <<"s">>, <<"c">>, <<"p">>}}

\* Three directives that read seven slots of four types between them.
SevenReads == <<"%", "*", "c", "%", "*", ".", "*", "s", "%", ".", "*", "x">>

Formats ==
    LitFormats \cup SingleDirectives \cup Sandwiches \cup UnsupportedDirectives
        \cup EdgeDirectives \cup {SevenReads}

\* --------------------------------------------------------------------
\* State
\* --------------------------------------------------------------------

VARIABLES
    format,   \* CFmtConverter.format, as a sequence of characters
    pos,      \* the `chars` iterator: index of the next character
    pc,       \* where fmt stands: "scan", "width", "precision", "convert", "done"
    params,   \* the FormatParameters of the directive being parsed
    va,       \* the argument list, as far as it has been read
    cursor,   \* the number of slots the cursor `args` has advanced over
    out,      \* the characters written to the formatter f
    sink,     \* the formatter f as a fallible sink, and its write counts
    status,   \* "running", "ok" (fmt returned Ok), "SinkError" (fmt returned
              \* Err), or the panic that ended it
    reads,    \* history: every cursor read, in order
    cur,      \* history: the directive being parsed
    dirs,     \* history: the directives that were dispatched, in order
    self_args, \* CFmtConverter.args: the slots the converter's own cursor is past
    rendered, \* history: the earlier renders of the converter that returned
    once,     \* OS_SERVICES_IMPLEMENTATION: the status and the data of the Once
    thr,      \* each thread's place in set_os_services_implementation
    log       \* history: the registrations, the calls that returned, the reads

\* The state of a render, and the state of the registration.
render ==
    <<format, pos, pc, params, va, cursor, out, sink, status, reads, cur, dirs,
      self_args, rendered>>

registry == <<once, thr, log>>

vars == <<render, registry>>

Threads == 1..NumThreads

\* The implementations a caller may hand in.
Impls == {"A", "B"}

\* Once::new()
NewOnce == [status |-> "Incomplete", data |-> <<>>]

Idle == [pc |-> "idle", impl |-> ""]

\* No registration, no returned call, no read yet.
NoLog ==
    [first |-> <<>>, registrations |-> 0, returned |-> {}, seen |-> {},
     call |-> <<>>]

\* FormatParameters::default()
DefaultParameters ==
    [justify_left |-> FALSE, always_show_sign |-> FALSE, prepend_space |-> FALSE,
     alternative |-> FALSE, leading_zeroes |-> FALSE,
     minimum_width |-> <<>>, precision |-> <<>>]

NoDirective == [start |-> 0, flag_left |-> FALSE, width_arg |-> <<>>, precision_arg |-> <<>>]

\* chars.peek() at index p
Peek(p) == IF p <= Len(format) THEN format[p] ELSE NoChar

FlagChars == {"-", "+", " ", "#", "0"}

\* The flag loop: the index of the first character that is not a flag.
RECURSIVE FlagsEnd(_)
FlagsEnd(p) == IF Peek(p) \in FlagChars THEN FlagsEnd(p + 1) ELSE p

\* The FormatParameters after the flag loop run over format[p .. e-1].
FlagParameters(p, e) ==
    LET seen == {format[i] : i \in p..(e - 1)}
    IN  [DefaultParameters EXCEPT
            !.justify_left = "-" \in seen,
            !.always_show_sign = "+" \in seen,
            !.prepend_space = " " \in seen,
            !.alternative = "#" \in seen,
            !.leading_zeroes = "0" \in seen]

\* The digit loop of read_format_parameter: <<number, index after the digits>>.
RECURSIVE ParseNumber(_, _)
ParseNumber(p, number) ==
    IF is_ascii_digit(Peek(p))
    THEN ParseNumber(p + 1, number * 10 + DigitValue(format[p]))
    ELSE <<number, p>>

\* Mutant: '*' is consumed but no argument is pulled for it.
read_format_parameter_unread(p) ==
    IF Peek(p) = "*"
    THEN {[pos |-> p + 1, args |-> <<>>, result |-> <<<<0, FALSE>>>>]}
    ELSE IF is_ascii_digit(Peek(p))
    THEN {[pos |-> ParseNumber(p, 0)[2], args |-> <<>>,
           result |-> <<<<ParseNumber(p, 0)[1], FALSE>>>>]}
    ELSE {[pos |-> p, args |-> <<>>, result |-> <<>>]}

\* read_format_parameter at index p: the possible outcomes, one per value the
\* next argument slot may hold. result is None (<<>>) or Some((n, negative)).
read_format_parameter(p) ==
    IF Peek(p) = "*"
    THEN {[pos |-> p + 1, args |-> <<v>>, result |-> <<<<unsigned_abs(v), v < 0>>>>] :
             v \in CInts}
    ELSE IF is_ascii_digit(Peek(p))
    THEN {[pos |-> ParseNumber(p, 0)[2], args |-> <<>>,
           result |-> <<<<ParseNumber(p, 0)[1], FALSE>>>>]}
    ELSE {[pos |-> p, args |-> <<>>, result |-> <<>>]}

\* Mutant: a negative dynamic width keeps its magnitude but does not turn
\* justify_left on.
read_min_width_keeps_justification(o, justify_left) ==
    IF o.result = <<>> THEN <<<<>>, justify_left>>
    ELSE <<<<o.result[1][1]>>, justify_left>>

\* read_min_width: <<minimum_width, justify_left>> from an outcome of
\* read_format_parameter.
read_min_width(o, justify_left) ==
    IF o.result = <<>> THEN <<<<>>, justify_left>>
    ELSE <<<<o.result[1][1]>>, IF o.result[1][2] THEN TRUE ELSE justify_left>>

\* Mutant: a negative dynamic precision is taken by its magnitude, as a
\* width is.
read_precision_lenient(o) ==
    IF o.result = <<>> THEN <<<<>>, FALSE>>
    ELSE <<<<o.result[1][1]>>, FALSE>>

\* read_precision: <<precision, panicked>> from an outcome of
\* read_format_parameter.
read_precision(o) ==
    IF o.result = <<>> THEN <<<<>>, FALSE>>
    ELSE IF o.result[1][2] THEN <<<<>>, TRUE>>
    ELSE <<<<o.result[1][1]>>, FALSE>>

\* --------------------------------------------------------------------
\* Renderers. A renderer yields the writes it makes on the formatter, in
\* order; a write is [kind, text], kind naming the place that makes it.
\* --------------------------------------------------------------------

Write(kind, text) == [kind |-> kind, text |-> text]

\* for _ in 0..pad_length { f.write_char(pad_char)? }
PadWrites(pad_char, pad_length) == Rep(Write("pad", <<pad_char>>), pad_length)

TextOf(writes) == Flatten([i \in 1..Len(writes) |-> writes[i].text])

\* A sink that has refused nothing yet: limit is None (<<>>) when it accepts
\* every write, Some(n) when it refuses the write after n accepted ones.
NewSink(limit) == [limit |-> limit, tried |-> 0, written |-> 0, failed |-> <<>>]

\* Mutant: the result of a write is dropped (`let _ =` in place of `?`).
write_each_unchecked(writes, snk) ==
    LET n == IF snk.limit = <<>> THEN Len(writes)
             ELSE Min(Len(writes), snk.limit[1] - snk.written)
    IN  [accepted |-> SubSeq(writes, 1, n), tried |-> Len(writes), refused |-> <<>>]

\* The writes of one step, each followed by `?`: they are made in order up to
\* the first one the sink refuses, which returns Err from the step.
write_each(writes, snk) ==
    LET n == IF snk.limit = <<>> THEN Len(writes)
             ELSE Min(Len(writes), snk.limit[1] - snk.written)
    IN  [accepted |-> SubSeq(writes, 1, n),
         tried |-> IF n < Len(writes) THEN n + 1 ELSE n,
         refused |-> IF n < Len(writes) THEN <<writes[n + 1]>> ELSE <<>>]

\* The sink after the writes r of a step that left the cursor at slot c.
SinkAfter(r, c) ==
    [sink EXCEPT
        !.tried = @ + r.tried,
        !.written = @ + Len(r.accepted),
        !.failed = IF r.refused # <<>>
                   THEN <<[kind |-> r.refused[1].kind, cursor |-> c, out |-> Len(out) + Len(TextOf(r.accepted))]>>
                   ELSE @]

\* Base::as_number
as_number(base) ==
    CASE base = "Octal" -> 8
      [] base = "Decimal" -> 10
      [] base = "Hex" -> 16

\* Mutant: the capital spelling of the prefix is forgotten.
prefix_lowercase(base, capital) ==
    CASE base = "Octal" -> <<"0">>
      [] base = "Decimal" -> <<"0", "d">>
      [] base = "Hex" -> <<"0", "x">>

\* Base::prefix
prefix(base, capital) ==
    CASE base = "Octal" -> <<"0">>
      [] base = "Decimal" /\ ~capital -> <<"0", "d">>
      [] base = "Decimal" /\ capital -> <<"0", "D">>
      [] base = "Hex" /\ ~capital -> <<"0", "x">>
      [] base = "Hex" /\ capital -> <<"0", "X">>

\* The precision format_int_unsigned works with: one less for an octal prefix.
unsigned_precision(p) ==
    IF p.print_prefix /\ p.base = "Octal" THEN saturating_sub(p.precision, 1)
    ELSE p.precision

\* number_length of format_int_unsigned
unsigned_number_length(value, p) ==
    (IF p.print_prefix /\ p.base # "Octal" THEN 2 ELSE 0)
        + Max(unsigned_precision(p),
              unwrap_or(checked_ilog(value, as_number(p.base)), 0) + 1)

\* Mutant: the digits are written whatever the value and the precision.
unsigned_digits_unconditional(value, p) ==
    <<Write("digits",
            ZeroFill(Digits(value, as_number(p.base),
                            IF p.capital THEN UpperDigits ELSE LowerDigits),
                     unsigned_precision(p)))>>

\* The digit write of format_int_unsigned: none for octal 0 with precision 0.
\* match_formatter passes capital only with Base::Hex.
unsigned_digits(value, p) ==
    IF p.base = "Octal" /\ value = 0 /\ unsigned_precision(p) = 0 THEN <<>>
    ELSE <<Write("digits",
                 ZeroFill(Digits(value, as_number(p.base),
                                 IF p.capital THEN UpperDigits ELSE LowerDigits),
                          unsigned_precision(p)))>>

format_int_unsigned(value, p) ==
    LET pad_length == saturating_sub(p.min_length, unsigned_number_length(value, p))
    IN  (IF ~p.justify_left THEN PadWrites(p.pad_char, pad_length) ELSE <<>>)
            \o (IF p.print_prefix THEN <<Write("prefix", prefix(p.base, p.capital))>>
                ELSE <<>>)
            \o unsigned_digits(value, p)
            \o (IF p.justify_left THEN PadWrites(p.pad_char, pad_length) ELSE <<>>)

\* Mutant: the field width is computed from the digit count alone, the
\* precision forgotten.
signed_number_length_no_precision(value, p) ==
    unwrap_or(checked_ilog(unsigned_abs(value), 10), 0) + 1
        + (IF value < 0 \/ p.always_print_sign THEN 1 ELSE 0)

\* number_length of format_int_signed
signed_number_length(value, p) ==
    Max(p.precision, unwrap_or(checked_ilog(unsigned_abs(value), 10), 0) + 1)
        + (IF value < 0 \/ p.always_print_sign THEN 1 ELSE 0)

\* Mutant: the '+' flag is tested before the sign of the value.
sign_write_flag_first(value, p) ==
    IF p.always_print_sign THEN <<Write("sign", <<"+">>)>>
    ELSE IF value < 0 THEN <<Write("sign", <<"-">>)>>
    ELSE IF p.prepend_space THEN <<Write("sign", <<" ">>)>>
    ELSE <<>>

\* The sign write of format_int_signed.
sign_write(value, p) ==
    IF value < 0 THEN <<Write("sign", <<"-">>)>>
    ELSE IF p.always_print_sign THEN <<Write("sign", <<"+">>)>>
    ELSE IF p.prepend_space THEN <<Write("sign", <<" ">>)>>
    ELSE <<>>

\* Mutant: the sign is written first and the padding after it, as C's printf
\* places zero padding.
format_int_signed_sign_first(value, p) ==
    LET pad_length == saturating_sub(p.min_length, signed_number_length(value, p))
    IN  sign_write(value, p)
            \o (IF ~p.justify_left THEN PadWrites(p.pad_char, pad_length) ELSE <<>>)
            \o <<Write("digits",
                       ZeroFill(Digits(unsigned_abs(value), 10, LowerDigits),
                                p.precision))>>
            \o (IF p.justify_left THEN PadWrites(p.pad_char, pad_length) ELSE <<>>)

format_int_signed(value, p) ==
    LET pad_length == saturating_sub(p.min_length, signed_number_length(value, p))
    IN  (IF ~p.justify_left THEN PadWrites(p.pad_char, pad_length) ELSE <<>>)
            \o sign_write(value, p)
            \o <<Write("digits",
                       ZeroFill(Digits(unsigned_abs(value), 10, LowerDigits),
                                p.precision))>>
            \o (IF p.justify_left THEN PadWrites(p.pad_char, pad_length) ELSE <<>>)

\* A byte read at offset i of a buffer lies in it.
InBuffer(buf, i) == i < Len(buf)

\* The take_while scan of print_string from offset i:
\* (0..precision).take(precision).take_while(|i| read(ptr.add(i)) != 0).count().
\* Yields [len, mem, oob]: the count, the offsets read, and whether a read left
\* the buffer. A read outside the buffer is undefined: it may bring a zero or
\* any other byte, so the scan may stop there or anywhere up to the bound.
RECURSIVE bounded_scan(_, _, _)
bounded_scan(buf, i, bound) ==
    IF i >= bound THEN {[len |-> i, mem |-> 0..(i - 1), oob |-> FALSE]}
    ELSE IF InBuffer(buf, i)
    THEN IF buf[i + 1] = 0 THEN {[len |-> i, mem |-> 0..i, oob |-> FALSE]}
         ELSE bounded_scan(buf, i + 1, bound)
    ELSE {[len |-> n, mem |-> 0..Min(n, bound - 1), oob |-> TRUE] : n \in i..bound}

\* Mutant: the scan runs over 0..=precision.
string_scan_inclusive(buf, precision) ==
    IF precision # <<>> THEN bounded_scan(buf, 0, precision[1] + 1)
    ELSE bounded_scan(buf, 0, Len(buf) + 2)

\* The bytes print_string takes: with a precision the take_while scan, without
\* one CStr::from_ptr, which reads up to the first zero byte (and beyond the
\* buffer when there is none).
string_scan(buf, precision) ==
    IF precision # <<>> THEN bounded_scan(buf, 0, precision[1])
    ELSE bounded_scan(buf, 0, Len(buf) + 2)

\* slice::from_raw_parts(ptr, len): bytes outside the buffer are arbitrary.
raw_parts(buf, len) == [k \in 1..len |-> IF k <= Len(buf) THEN buf[k] ELSE 97]

\* print_string on the buffer the argument points to: the possible outcomes
\* [writes, panic, mem, oob].
print_string(buf, fp, pad_char) ==
    {LET string == from_utf8(raw_parts(buf, sc.len))
         pad_width == saturating_sub(unwrap_or(fp.minimum_width, 0), Len(raw_parts(buf, sc.len)))
     IN  IF ~string[1]
         THEN [writes |-> <<>>, panic |-> "InvalidUtf8", mem |-> sc.mem, oob |-> sc.oob]
         ELSE [writes |->
                   IF fp.minimum_width # <<>>
                   THEN (IF ~fp.justify_left THEN PadWrites(pad_char, pad_width) ELSE <<>>)
                            \o <<Write("str", string[2])>>
                            \o (IF fp.justify_left THEN PadWrites(pad_char, pad_width) ELSE <<>>)
                   ELSE <<Write("str", string[2])>>,
               panic |-> "none", mem |-> sc.mem, oob |-> sc.oob] :
        sc \in string_scan(buf, fp.precision)}

\* {:p} of an address: "0x" and the lowercase hexadecimal digits.
pointer_text(addr) == <<"0", "x">> \o Digits(addr, 16, LowerDigits)

Arg(ty, val) == [ty |-> ty, val |-> val]

Outcome(conv, adv, args, writes, panic, mem, oob) ==
    [conv |-> conv, adv |-> adv, args |-> args, writes |-> writes, panic |-> panic,
     mem |-> mem, oob |-> oob]

\* Mutant: the '%' that ends the text is written before the panic.
format_ended_after_write(c) ==
    Outcome(c, 0, <<>>, <<Write("literal", <<"%">>)>>, "FormatEndedAfterPercent", {}, FALSE)

\* None => panic!("Printf format string ended after %")
format_ended(c) == Outcome(c, 0, <<>>, <<>>, "FormatEndedAfterPercent", {}, FALSE)

\* Mutant: an unknown letter is passed through as literal text.
unknown_specifier_passed_through(c) ==
    Outcome(c, 1, <<>>, <<Write("literal", <<"%", c>>)>>, "none", {}, FALSE)

\* Mutant: a '%' in the place of the letter is written as a literal '%'.
unknown_specifier_unless_percent(c) ==
    IF c = "%"
    THEN Outcome(c, 1, <<>>, <<Write("literal", <<"%">>)>>, "none", {}, FALSE)
    ELSE Outcome(c, 1, <<>>, <<>>, "UnknownSpecifier", {}, FALSE)

\* Some(s) => panic!("Unknown printf format specifier '{s}'")
unknown_specifier(c) == Outcome(c, 1, <<>>, <<>>, "UnknownSpecifier", {}, FALSE)

\* Mutant: 'n' is taken for a letter the formatter does not know.
todo_bytes_written_as_unknown(c) ==
    Outcome(c, 1, <<>>, <<>>, "UnknownSpecifier", {}, FALSE)

\* Some('n') => todo!("'%n' formatter which writes the current number of bytes ...")
todo_bytes_written(c) == Outcome(c, 1, <<>>, <<>>, "TodoBytesWritten", {}, FALSE)

\* Some(s @ ('h' | 'l' | 'j' | 'z' | 't' | 'L')) => todo!("Format modifier '{s}'")
todo_format_modifier(c) == Outcome(c, 1, <<>>, <<>>, "TodoFormatModifier", {}, FALSE)

\* Some(s @ ('f' | ... | 'G')) => panic!("Formatter '{s}' is not supported ...")
float_not_supported(c) == Outcome(c, 1, <<>>, <<>>, "FloatNotSupported", {}, FALSE)

\* match_formatter at index p with the parsed parameters fp: the possible
\* outcomes, one per value the argument slot it reads may hold.
match_formatter(p, fp) ==
    LET c == Peek(p)
        pad_char == IF fp.leading_zeroes THEN "0" ELSE " "
        precision == unwrap_or(fp.precision, 1)
        min_length == unwrap_or(fp.minimum_width, 0)
    IN  CASE c = NoChar -> {format_ended(c)}
          [] c = "c" ->
               {IF v < 0
                THEN Outcome(c, 1, <<Arg("char", v)>>, <<>>, "CharOutOfRange", {}, FALSE)
                ELSE Outcome(c, 1, <<Arg("char", v)>>, <<Write("char", <<Chr(v)>>)>>,
                             "none", {}, FALSE) :
                   v \in CChars}
          [] c \in {"d", "i"} ->
               {Outcome(c, 1, <<Arg("int", v)>>,
                        format_int_signed(v,
                            [pad_char |-> pad_char, justify_left |-> fp.justify_left,
                             precision |-> precision, min_length |-> min_length,
                             always_print_sign |-> fp.always_show_sign,
                             prepend_space |-> fp.prepend_space]),
                        "none", {}, FALSE) :
                   v \in CInts}
          [] c \in {"u", "o", "x", "X"} ->
               {Outcome(c, 1, <<Arg("uint", v)>>,
                        format_int_unsigned(v,
                            [pad_char |-> pad_char,
                             base |-> CASE c = "u" -> "Decimal"
                                        [] c = "o" -> "Octal"
                                        [] OTHER -> "Hex",
                             justify_left |-> fp.justify_left,
                             print_prefix |-> fp.alternative,
                             capital |-> (c = "X"),
                             precision |-> precision, min_length |-> min_length]),
                        "none", {}, FALSE) :
                   v \in CUInts}
          [] c = "s" ->
               UNION {{Outcome(c, 1, <<Arg("addr", buf)>>, o.writes, o.panic, o.mem, o.oob) :
                          o \in print_string(buf, fp, pad_char)} :
                      buf \in {b \in Buffers : ValidCString(b, fp.precision)}}
          [] c = "p" ->
               {Outcome(c, 1, <<Arg("addr", v)>>, <<Write("ptr", pointer_text(v))>>,
                        "none", {}, FALSE) :
                   v \in Pointers}
          [] c = "n" -> {todo_bytes_written(c)}
          [] c \in {"h", "l", "j", "z", "t", "L"} -> {todo_format_modifier(c)}
          [] c \in {"f", "F", "e", "E", "a", "A", "g", "G"} -> {float_not_supported(c)}
          [] OTHER -> {unknown_specifier(c)}

\* --------------------------------------------------------------------
\* CFmtConverter::fmt, one action per step of its loop
\* --------------------------------------------------------------------

\* fmt is entered with a format text and a sink.
\* Mutant: the render goes on from where the last one left the cursor.
args_shared(own, last) == last

\* let mut args = self.args.clone(): the cursor of a render is a copy of the
\* converter's own, whose position is `own`; `last` is the position the
\* render before it, if any, left its copy at.
args_clone(own, last) == own

\* args.arg::<T>() on a slot of the argument list: a slot read before holds
\* the value it held then.
Known(args) == \A i \in 1..Len(args) : cursor + i <= Len(va) => va[cursor + i] = args[i]

\* The argument list after the slots at the cursor have been read as args.
Revealed(args) ==
    IF cursor + Len(args) <= Len(va) THEN va ELSE SubSeq(va, 1, cursor) \o args

Start(formats, limits) ==
    /\ format \in formats
    /\ pos = 1
    /\ pc = "scan"
    /\ params = DefaultParameters
    /\ va = <<>>
    /\ self_args = 0
    /\ cursor = args_clone(self_args, 0)
    /\ out = <<>>
    /\ sink \in {NewSink(l) : l \in limits}
    /\ status = "running"
    /\ reads = <<>>
    /\ cur = NoDirective
    /\ dirs = <<>>
    /\ rendered = <<>>
    /\ once = NewOnce
    /\ thr = [t \in Threads |-> Idle]
    /\ log = NoLog

\* A sink that accepts every write.
Init == Start(Formats, {<<>>})

\* A sink that refuses a write after at most MaxSinkWrites accepted ones.
InitSink == Start(SinkFormats, {<<n>> : n \in 0..MaxSinkWrites})

\* Mutant: the literal branch continues without writing the character.
literal_write_dropped(c) == Write("literal", <<>>)

\* f.write_fmt(format_args!("{c}")) of a character that is not '%'
literal_write(c) == Write("literal", <<c>>)

\* Mutant: the second '%' is not looked for before the directive is parsed.
is_literal_percent_unchecked(p) == FALSE

\* if let Some('%') = chars.peek(), after a '%' at index p
is_literal_percent(p) == Peek(p + 1) = "%"

\* The cursor reads of one step: the slots appended to the argument list.
ReadSlots(args, tys, role) ==
    [i \in 1..Len(args) |->
        [slot |-> cursor + i, ty |-> tys[i], role |-> role, dir |-> Len(dirs) + 1]]

\* A character other than '%' is written as it is.
WriteLiteral ==
    /\ pc = "scan"
    /\ pos <= Len(format)
    /\ format[pos] # "%"
    /\ LET r == write_each(<<literal_write(format[pos])>>, sink)
       IN  /\ out' = out \o TextOf(r.accepted)
           /\ sink' = SinkAfter(r, cursor)
           /\ status' = IF r.refused # <<>> THEN "SinkError" ELSE status
           /\ pc' = IF r.refused # <<>> THEN "done" ELSE pc
    /\ pos' = pos + 1
    /\ UNCHANGED <<format, self_args, rendered, params, va, cursor, reads, cur, dirs, registry>>

\* '%%' writes one '%'.
WritePercent ==
    /\ pc = "scan"
    /\ pos <= Len(format)
    /\ format[pos] = "%"
    /\ is_literal_percent(pos)
    /\ LET r == write_each(<<Write("literal", <<"%">>)>>, sink)
       IN  /\ out' = out \o TextOf(r.accepted)
           /\ sink' = SinkAfter(r, cursor)
           /\ status' = IF r.refused # <<>> THEN "SinkError" ELSE status
           /\ pc' = IF r.refused # <<>> THEN "done" ELSE pc
    /\ pos' = pos + 2
    /\ UNCHANGED <<format, self_args, rendered, params, va, cursor, reads, cur, dirs, registry>>

\* A directive starts: FormatParameters::default() and the flag loop.
ParseFlags ==
    /\ pc = "scan"
    /\ pos <= Len(format)
    /\ format[pos] = "%"
    /\ ~is_literal_percent(pos)
    /\ LET e == FlagsEnd(pos + 1)
       IN  /\ params' = FlagParameters(pos + 1, e)
           /\ pos' = e
           /\ cur' = [start |-> pos, flag_left |-> FlagParameters(pos + 1, e).justify_left,
                      width_arg |-> <<>>, precision_arg |-> <<>>]
    /\ pc' = "width"
    /\ UNCHANGED <<format, self_args, rendered, va, cursor, out, sink, status, reads, dirs, registry>>

\* params.minimum_width = read_min_width(...)
ReadMinWidth ==
    /\ pc = "width"
    /\ \E o \in read_format_parameter(pos) :
          LET r == read_min_width(o, params.justify_left)
          IN  /\ params' = [params EXCEPT !.minimum_width = r[1], !.justify_left = r[2]]
              /\ pos' = o.pos
              /\ Known([i \in 1..Len(o.args) |-> Arg("int", o.args[i])])
              /\ va' = Revealed([i \in 1..Len(o.args) |-> Arg("int", o.args[i])])
              /\ cursor' = cursor + Len(o.args)
              /\ reads' = reads \o ReadSlots(o.args, <<"int">>, "width")
              /\ cur' = [cur EXCEPT !.width_arg = o.args]
    /\ pc' = "precision"
    /\ UNCHANGED <<format, self_args, rendered, out, sink, status, dirs, registry>>

\* The record of a dispatched directive.
DirEntry(stop, conv, args, writes, mem, oob, result) ==
    [start |-> cur.start, stop |-> stop, flag_left |-> cur.flag_left,
     width_arg |-> cur.width_arg, precision_arg |-> cur.precision_arg,
     params |-> params, conv |-> conv, args |-> args, writes |-> writes,
     mem |-> mem, oob |-> oob, result |-> result, out_before |-> Len(out)]

\* params.precision = 'p: { ... read_precision(...) }
ReadPrecision ==
    /\ pc = "precision"
    /\ \E o \in (IF Peek(pos) = "."
                 THEN read_format_parameter(pos + 1)
                 ELSE {[pos |-> pos, args |-> <<>>, result |-> <<>>]}) :
          LET r == read_precision(o)
          IN  /\ pos' = o.pos
              /\ Known([i \in 1..Len(o.args) |-> Arg("int", o.args[i])])
              /\ va' = Revealed([i \in 1..Len(o.args) |-> Arg("int", o.args[i])])
              /\ cursor' = cursor + Len(o.args)
              /\ reads' = reads \o ReadSlots(o.args, <<"int">>, "precision")
              /\ cur' = [cur EXCEPT !.precision_arg = o.args]
              /\ IF r[2]
                 THEN /\ status' = "InvalidPrecision"
                      /\ pc' = "done"
                      /\ dirs' = Append(dirs,
                             [DirEntry(o.pos, "", <<>>, <<>>, {}, FALSE, "InvalidPrecision")
                                 EXCEPT !.precision_arg = o.args])
                      /\ UNCHANGED params
                 ELSE /\ params' = [params EXCEPT !.precision = r[1]]
                      /\ pc' = "convert"
                      /\ UNCHANGED <<status, dirs>>
    /\ UNCHANGED <<format, self_args, rendered, out, sink, registry>>

\* match_formatter(&mut chars, f, &mut args, params)?
MatchFormatter ==
    /\ pc = "convert"
    /\ \E o \in match_formatter(pos, params) :
          LET r == write_each(o.writes, sink)
              result == IF r.refused # <<>> THEN "SinkError" ELSE o.panic
          IN  /\ pos' = pos + o.adv
              /\ Known(o.args)
              /\ va' = Revealed(o.args)
              /\ cursor' = cursor + Len(o.args)
              /\ reads' = reads \o ReadSlots(o.args, [i \in 1..Len(o.args) |-> o.args[i].ty],
                                              "value")
              /\ out' = out \o TextOf(r.accepted)
              /\ sink' = SinkAfter(r, cursor + Len(o.args))
              /\ dirs' = Append(dirs,
                     DirEntry(pos + o.adv, o.conv, o.args, r.accepted, o.mem, o.oob, result))
              /\ status' = IF result = "none" THEN status ELSE result
              /\ pc' = IF result = "none" THEN "scan" ELSE "done"
    /\ UNCHANGED <<format, self_args, rendered, params, cur, registry>>

\* The format text is exhausted: fmt returns Ok(()).
Return ==
    /\ pc = "scan"
    /\ pos > Len(format)
    /\ status' = "ok"
    /\ pc' = "done"
    /\ UNCHANGED <<format, self_args, rendered, pos, params, va, cursor, out, sink, reads, cur, dirs, registry>>

Next ==
    \/ WriteLiteral
    \/ WritePercent
    \/ ParseFlags
    \/ ReadMinWidth
    \/ ReadPrecision
    \/ MatchFormatter
    \/ Return

Spec == Init /\ [][Next]_vars

\* The same render into a sink that refuses a write.
SpecSink == InitSink /\ [][Next]_vars

\* The converter whose fmt has returned Ok is rendered again, into a fresh
\* formatter: fmt takes &self, so the format text, the argument list and the
\* converter's own cursor are those of the render before.
FmtAgain ==
    /\ pc = "done"
    /\ status = "ok"
    /\ Len(rendered) + 1 < MaxRenders
    /\ rendered' = Append(rendered, [out |-> out, reads |-> reads, dirs |-> dirs,
                                     cursor |-> cursor])
    /\ pos' = 1
    /\ pc' = "scan"
    /\ params' = DefaultParameters
    /\ cursor' = args_clone(self_args, cursor)
    /\ out' = <<>>
    /\ sink' = NewSink(sink.limit)
    /\ status' = "running"
    /\ reads' = <<>>
    /\ cur' = NoDirective
    /\ dirs' = <<>>
    /\ UNCHANGED <<format, va, self_args, registry>>

\* The format texts rendered more than once.
RepeatFormats ==
    {a \o d \o b : a \in {<<>>, <<"%", "*", "c">>}, d \in CoreDirectives,
                   b \in {<<>>, <<"%", "%", "5">>}}

InitRepeat == Start(RepeatFormats, {<<>>})

NextRepeat ==
    \/ Next
    \/ FmtAgain

SpecRepeat == InitRepeat /\ [][NextRepeat]_vars

\* --------------------------------------------------------------------
\* The registration of the OS services implementation (lib.rs):
\* OS_SERVICES_IMPLEMENTATION is a spin::Once. call_once takes the status
\* from Incomplete to Running with a compare-exchange, runs the closure,
\* stores its value and then stores Complete; a caller that finds Running
\* waits, one that finds Complete returns; get yields the value when it
\* loads Complete.
\* --------------------------------------------------------------------

\* Mutant: the exchange succeeds on any status but Complete.
compare_exchange_unless_complete(current, expected) == current # "Complete"

\* status.compare_exchange(expected, Running): whether it succeeds.
compare_exchange(current, expected) == current = expected

\* Once::get
get == IF once.status = "Complete" THEN once.data ELSE <<>>

\* A call of set_os_services_implementation returned normally; `after` says
\* whether a registration had completed when it was entered.
Returned(impl, after) == [impl |-> impl, after |-> after, outcome |-> "returned"]

\* set_os_services_implementation(implementation) is entered by thread t:
\* call_once first looks whether the Once is complete, and returns if it is.
SetOsServicesImplementation(t, impl) ==
    /\ thr[t].pc = "idle"
    /\ IF get # <<>>
       THEN /\ log' = [log EXCEPT !.returned = @ \cup {Returned(impl, TRUE)}]
            /\ thr' = thr
       ELSE /\ thr' = [thr EXCEPT ![t] = [pc |-> "exchange", impl |-> impl]]
            /\ log' = log
    /\ UNCHANGED <<once, render>>

\* The compare-exchange of call_once: the winner goes on to run the closure,
\* a caller that finds Complete returns, one that finds Running waits.
CallOnceExchange(t) ==
    /\ thr[t].pc = "exchange"
    /\ once.status # "Running" \/ compare_exchange(once.status, "Incomplete")
    /\ IF compare_exchange(once.status, "Incomplete")
       THEN /\ once' = [once EXCEPT !.status = "Running"]
            /\ thr' = [thr EXCEPT ![t].pc = "write"]
            /\ log' = log
       ELSE /\ thr' = [thr EXCEPT ![t] = Idle]
            /\ log' = [log EXCEPT !.returned = @ \cup {Returned(thr[t].impl, FALSE)}]
            /\ once' = once
    /\ UNCHANGED render

\* The closure `|| implementation` has run: its value is written to the data.
CallOnceWrite(t) ==
    /\ thr[t].pc = "write"
    /\ once' = [once EXCEPT !.data = <<thr[t].impl>>]
    /\ thr' = [thr EXCEPT ![t].pc = "complete"]
    /\ UNCHANGED <<log, render>>

\* status.store(Complete), and call_once returns.
CallOnceComplete(t) ==
    /\ thr[t].pc = "complete"
    /\ once' = [once EXCEPT !.status = "Complete"]
    /\ thr' = [thr EXCEPT ![t] = Idle]
    /\ log' = [log EXCEPT
                  !.first = IF @ = <<>> THEN <<thr[t].impl>> ELSE @,
                  !.registrations = @ + 1,
                  !.returned = @ \cup {Returned(thr[t].impl, FALSE)}]
    /\ UNCHANGED render

\* current_os_services_implementation() called by thread t; the history
\* keeps what it returned, with the registration that had completed by then.
CurrentOsServicesImplementation(t) ==
    /\ thr[t].pc = "idle"
    /\ log' = [log EXCEPT !.seen = @ \cup {[value |-> get, registered |-> log.first]}]
    /\ UNCHANGED <<once, thr, render>>

\* The forwarding callbacks of delegates.rs taken as examples, each with the
\* method of AcpicaOsServices it forwards to. All the forwarding callbacks
\* have the body OS_SERVICES_IMPLEMENTATION.get().unwrap().method(...);
\* AcpiOsVprintf converts its format with to_str().unwrap() first.
Callbacks == {"AcpiOsInitialize", "AcpiOsVprintf", "AcpiDmDisassemble"}

Method(cb) ==
    CASE cb = "AcpiOsInitialize" -> "initialize"
      [] cb = "AcpiOsVprintf" -> "print"
      [] cb = "AcpiDmDisassemble" -> "disassemble"

\* Mutant: the callback returns without a call when nothing is registered.
forward_or_skip(cb, implementation) ==
    IF implementation = <<>>
    THEN [outcome |-> "returned", cause |-> "", method |-> <<>>]
    ELSE [outcome |-> "returned", cause |-> "",
          method |-> <<[impl |-> implementation[1], name |-> Method(cb)]>>]

\* .get().unwrap().method(...): unwrap panics on None, otherwise the
\* method of the implementation is called.
forward(cb, implementation) ==
    IF implementation = <<>>
    THEN [outcome |-> "panicked", cause |-> "NoImplementation", method |-> <<>>]
    ELSE [outcome |-> "returned", cause |-> "",
          method |-> <<[impl |-> implementation[1], name |-> Method(cb)]>>]

\* What a call of the callback does; utf8 says whether the format handed
\* to AcpiOsVprintf is valid UTF-8 (format.to_str().unwrap()).
callback(cb, utf8, implementation) ==
    IF cb = "AcpiOsVprintf" /\ ~utf8
    THEN [outcome |-> "panicked", cause |-> "FormatNotUtf8", method |-> <<>>]
    ELSE forward(cb, implementation)

\* Thread t enters the callback cb. The history keeps the latest call with
\* the registration that had completed by then. A panic in an extern "C"
\* function ends the caller: the thread stays at the panic, named by its
\* cause, and takes no further step.
Callback(t, cb, utf8) ==
    /\ thr[t].pc = "idle"
    /\ LET r == callback(cb, utf8, get)
       IN /\ log' = [log EXCEPT !.call =
                        <<[callback |-> cb, utf8 |-> utf8, registered |-> log.first,
                           outcome |-> r.outcome, cause |-> r.cause,
                           method |-> r.method]>>]
          /\ thr' = IF r.outcome = "panicked"
                    THEN [thr EXCEPT ![t].pc = r.cause]
                    ELSE thr
    /\ UNCHANGED <<once, render>>

InitOnce == Start({<<>>}, {<<>>})

NextOnce ==
    \/ \E t \in Threads, impl \in Impls : SetOsServicesImplementation(t, impl)
    \/ \E t \in Threads : CallOnceExchange(t)
    \/ \E t \in Threads : CallOnceWrite(t)
    \/ \E t \in Threads : CallOnceComplete(t)
    \/ \E t \in Threads : CurrentOsServicesImplementation(t)
    \/ \E t \in Threads, cb \in Callbacks, utf8 \in BOOLEAN : Callback(t, cb, utf8)

SpecOnce == InitOnce /\ [][NextOnce]_vars

\* --------------------------------------------------------------------
\* Reference texts the properties compare the output with, written
\* independently of the renderers above
\* --------------------------------------------------------------------

Range(f) == {f[i] : i \in 1..Len(f)}

\* The numeral of a value below radix^3 in a digit table.
Numeral(v, radix, table) ==
    IF v < radix THEN <<table[v + 1]>>
    ELSE IF v < radix * radix THEN <<table[(v \div radix) + 1], table[(v % radix) + 1]>>
    ELSE <<table[(v \div (radix * radix)) + 1], table[((v \div radix) % radix) + 1],
           table[(v % radix) + 1]>>

\* At least n characters, zeros added on the left.
AtLeastDigits(text, n) == IF Len(text) >= n THEN text ELSE Rep("0", n - Len(text)) \o text

\* A field of a non-negative signed value without sign flags: the digits,
\* at least P of them, in W columns.
SignedField(v, W, P, left, zero) ==
    LET digits == AtLeastDigits(Numeral(v, 10, DigitChars), P)
        pad == Rep(IF zero THEN "0" ELSE " ", Max(0, W - Len(digits)))
    IN  IF left THEN digits \o pad ELSE pad \o digits

Finished == status = "ok"

Dispatched(k) == k \in 1..Len(dirs) /\ dirs[k].result = "none"

\* --------------------------------------------------------------------
\* Properties
\* --------------------------------------------------------------------

NoPercent == \A i \in 1..Len(format) : format[i] # "%"

\* C1: a format text without '%' is written to the sink character by
\* character, in order, and no argument is read from the cursor: what has been
\* written is always the part of the text scanned so far, and on return it is
\* the whole text.
C1_LiteralTextVerbatim ==
    NoPercent =>
        /\ out = SubSeq(format, 1, pos - 1)
        /\ cursor = 0 /\ va = <<>> /\ reads = <<>> /\ dirs = <<>>
        /\ status \in {"running", "ok"}
        /\ (pc = "done" => Finished /\ out = format)

C1_Witness ==
    /\ Finished
    /\ format = <<"5", "-", "a">>
    /\ out = <<"5", "-", "a">>
    /\ cursor = 0

\* C2: wherever the scan meets '%' followed by '%', the next step writes
\* exactly one '%', consumes both characters and leaves the argument cursor
\* (and the argument list read so far) as it was.
C2_PercentPercent ==
    [][(pc = "scan" /\ Peek(pos) = "%" /\ Peek(pos + 1) = "%") =>
          /\ out' = Append(out, "%")
          /\ pos' = pos + 2
          /\ cursor' = cursor /\ va' = va /\ reads' = reads
          /\ pc' = "scan" /\ status' = status]_vars

C2_Witness ==
    /\ format = <<"%", "u", "%", "%", "%", "p">>
    /\ pos = 5
    /\ out = <<"8", "%">>
    /\ cursor = 1

\* The part of the format text a dispatched directive spans.
Segment(d) == SubSeq(format, d.start, d.stop - 1)

StarWidth(seg) == \E i \in 1..Len(seg) : seg[i] = "*" /\ \A j \in 1..i : seg[j] # "."

StarPrecision(seg) == \E i \in 2..Len(seg) : seg[i] = "*" /\ seg[i - 1] = "."

\* The type of the value a conversion letter reads, <<>> when it reads none.
ValueRead(conv) ==
    CASE conv \in {"d", "i"} -> <<"int">>
      [] conv \in {"u", "o", "x", "X"} -> <<"uint">>
      [] conv = "c" -> <<"char">>
      [] conv \in {"s", "p"} -> <<"addr">>
      [] OTHER -> <<>>

\* The reads the text of directive k asks for: <<role, type>> in order.
ExpectedReads(d) ==
    (IF StarWidth(Segment(d)) THEN <<<<"width", "int">>>> ELSE <<>>)
        \o (IF StarPrecision(Segment(d)) THEN <<<<"precision", "int">>>> ELSE <<>>)
        \o [i \in 1..Len(ValueRead(d.conv)) |-> <<"value", ValueRead(d.conv)[i]>>]

ReadsOf(k) ==
    LET OfK(r) == r.dir = k
        rs == SelectSeq(reads, OfK)
    IN  [i \in 1..Len(rs) |-> <<rs[i].role, rs[i].ty>>]

RoleRank(role) == CASE role = "width" -> 1 [] role = "precision" -> 2 [] OTHER -> 3

\* C3: the cursor reads follow the directives from left to right: read number
\* i takes slot i (one slot per read, none skipped or repeated), the reads of
\* a directive are its '*' width (int), then its '.*' precision (int), then
\* the one value of its conversion letter, typed by that letter, and all
\* reads of a directive come before any read of a later one.
C3_ReadOrder ==
    /\ cursor = Len(reads) /\ Len(va) = cursor
    /\ \A i \in 1..Len(reads) : reads[i].slot = i /\ va[i].ty = reads[i].ty
    /\ \A i, j \in 1..Len(reads) :
          i < j => \/ reads[i].dir < reads[j].dir
                   \/ reads[i].dir = reads[j].dir /\ RoleRank(reads[i].role) < RoleRank(reads[j].role)
    /\ \A k, l \in 1..Len(dirs) : k < l => dirs[k].stop <= dirs[l].start
    /\ \A k \in 1..Len(dirs) : ReadsOf(k) = ExpectedReads(dirs[k])

C3_Witness ==
    /\ Finished
    /\ format = SevenReads
    /\ [i \in 1..Len(reads) |-> <<reads[i].dir, reads[i].role, reads[i].ty>>]
         = <<<<1, "width", "int">>, <<1, "value", "char">>,
             <<2, "width", "int">>, <<2, "precision", "int">>, <<2, "value", "addr">>,
             <<3, "precision", "int">>, <<3, "value", "uint">>>>
    /\ cursor = 7

\* The text directive k wrote, and that it is what the sink received.
Text(k) == TextOf(dirs[k].writes)

Landed(k) ==
    /\ Len(out) >= dirs[k].out_before + Len(Text(k))
    /\ SubSeq(out, dirs[k].out_before + 1, dirs[k].out_before + Len(Text(k))) = Text(k)

\* A finished render of the one-directive format text fmt with the argument
\* values vals.
Rendered(fmt, vals) ==
    /\ Finished
    /\ format = fmt
    /\ [i \in 1..Len(va) |-> va[i].val] = vals

\* C4: a d or i conversion of a value >= 0 without '+' and ' ' writes the
\* decimal digits zero-extended to the precision (default 1), padded to the
\* width (default 0) with '0' under the '0' flag and with spaces otherwise,
\* the padding before the digits, or after them under '-'; with the six
\* renderings of 5 the specification lists.
C4_SignedField ==
    /\ \A k \in 1..Len(dirs) :
          LET d == dirs[k]
          IN  (/\ Dispatched(k)
               /\ d.conv \in {"d", "i"}
               /\ d.args[1].val >= 0
               /\ "+" \notin Range(Segment(d))
               /\ " " \notin Range(Segment(d)))
              => /\ Text(k) = SignedField(d.args[1].val,
                                          unwrap_or(d.params.minimum_width, 0),
                                          unwrap_or(d.params.precision, 1),
                                          d.params.justify_left,
                                          d.params.leading_zeroes)
                 /\ Landed(k)
    /\ (Finished /\ Len(va) = 1 /\ va[1].ty = "int" /\ va[1].val >= 0) =>
       \A f \in {<<>>, <<"-">>, <<"0">>}, w \in {<<>>, <<"5">>, <<"8">>, <<"1", "2">>},
         p \in {<<>>, <<".", "0">>, <<".", "2">>, <<".", "3">>}, c \in {<<"d">>, <<"i">>} :
          format = MkDirective(f, w, p, c)
          => out = SignedField(va[1].val,
                               IF w = <<>> THEN 0 ELSE IF w = <<"1", "2">> THEN 12
                               ELSE DigitValue(w[1]),
                               IF p = <<>> THEN 1 ELSE DigitValue(p[2]),
                               f = <<"-">>, f = <<"0">>)
    /\ Rendered(<<"%", "d">>, <<5>>) => out = <<"5">>
    /\ Rendered(<<"%", "5", "d">>, <<5>>) => out = <<" ", " ", " ", " ", "5">>
    /\ Rendered(<<"%", "-", "5", "d">>, <<5>>) => out = <<"5", " ", " ", " ", " ">>
    /\ Rendered(<<"%", "0", "5", "d">>, <<5>>) => out = <<"0", "0", "0", "0", "5">>
    /\ Rendered(<<"%", ".", "3", "d">>, <<5>>) => out = <<"0", "0", "5">>
    /\ Rendered(<<"%", "8", ".", "3", "d">>, <<5>>)
          => out = <<" ", " ", " ", " ", " ", "0", "0", "5">>

C4_Witness ==
    /\ Rendered(<<"%", "8", ".", "3", "d">>, <<5>>)
    /\ out = <<" ", " ", " ", " ", " ", "0", "0", "5">>

\* C5: with '#' and neither width nor precision, x writes "0x" and the
\* lowercase hexadecimal digits, X writes "0X" and the uppercase ones, and o
\* writes a non-zero value as one '0' followed by its octal digits (8 is
\* "010", 255 is "0xff" and "0XFF").
C5_AlternateForm ==
    /\ \A k \in 1..Len(dirs) :
          LET d == dirs[k]
              v == d.args[1].val
          IN  (/\ Dispatched(k)
               /\ "#" \in Range(Segment(d))
               /\ d.params.minimum_width = <<>>
               /\ d.params.precision = <<>>)
              => /\ d.conv = "x" => Text(k) = <<"0", "x">> \o Numeral(v, 16, LowerDigits)
                 /\ d.conv = "X" => Text(k) = <<"0", "X">> \o Numeral(v, 16, UpperDigits)
                 /\ (d.conv = "o" /\ v # 0) => Text(k) = <<"0">> \o Numeral(v, 8, DigitChars)
                 /\ d.conv \in {"x", "X", "o"} => Landed(k)
    /\ Rendered(<<"%", "#", "o">>, <<8>>) => out = <<"0", "1", "0">>
    /\ Rendered(<<"%", "#", "x">>, <<255>>) => out = <<"0", "x", "f", "f">>
    /\ Rendered(<<"%", "#", "X">>, <<255>>) => out = <<"0", "X", "F", "F">>

C5_Witness ==
    \/ Rendered(<<"%", "#", "o">>, <<8>>) /\ out = <<"0", "1", "0">>
    \/ Rendered(<<"%", "#", "X">>, <<255>>) /\ out = <<"0", "X", "F", "F">>

\* The characters of a text that are c.
Count(text, c) == Cardinality({i \in 1..Len(text) : text[i] = c})

SignWrites(k) ==
    LET IsSign(w) == w.kind = "sign" IN TextOf(SelectSeq(dirs[k].writes, IsSign))

\* C6: a d or i conversion writes as its sign '-' for a negative value,
\* whatever the flags; else '+' under the '+' flag; else one space under the
\* ' ' flag; else nothing. Never more than one sign character, and '-' and
\* '+' occur in the text of the directive only as that sign.
C6_SignCharacter ==
    /\ \A k \in 1..Len(dirs) :
          LET d == dirs[k]
              v == d.args[1].val
              flags == Range(Segment(d))
          IN  (Dispatched(k) /\ d.conv \in {"d", "i"})
              => /\ SignWrites(k) =
                       (IF v < 0 THEN <<"-">>
                        ELSE IF "+" \in flags THEN <<"+">>
                        ELSE IF " " \in flags THEN <<" ">>
                        ELSE <<>>)
                 /\ Count(Text(k), "-") = (IF v < 0 THEN 1 ELSE 0)
                 /\ Count(Text(k), "+") = (IF v >= 0 /\ "+" \in flags THEN 1 ELSE 0)
                 /\ (d.params.minimum_width = <<>>)
                       => Count(Text(k), " ")
                            = (IF v >= 0 /\ "+" \notin flags /\ " " \in flags THEN 1 ELSE 0)
                 /\ Landed(k)
    /\ Rendered(<<"%", "+", "d">>, <<5>>) => out = <<"+", "5">>
    /\ Rendered(<<"%", " ", "d">>, <<5>>) => out = <<" ", "5">>
    /\ Rendered(<<"%", "+", "d">>, <<-5>>) => out = <<"-", "5">>

C6_Witness ==
    /\ Rendered(<<"%", "+", " ", "d">>, <<-5>>)
    /\ out = <<"-", "5">>

\* C7: a dynamic width whose argument is -n acts as the literal width n with
\* '-' set, and one whose argument is n >= 0 as the literal width n, the
\* justification left as the flags set it: the parsed parameters say so for
\* every directive, a d or i field of a value >= 0 is laid out so, and "%*d"
\* of -5 and 3 is "3" and four spaces.
C7_DynamicWidth ==
    /\ \A k \in 1..Len(dirs) :
          LET d == dirs[k]
          IN  d.width_arg # <<>>
              => /\ d.params.minimum_width = <<IF d.width_arg[1] < 0 THEN 0 - d.width_arg[1]
                                               ELSE d.width_arg[1]>>
                 /\ d.params.justify_left
                       = (("-" \in Range(Segment(d))) \/ d.width_arg[1] < 0)
    /\ pc \in {"precision", "convert"} /\ cur.width_arg # <<>>
          => /\ params.minimum_width = <<IF cur.width_arg[1] < 0 THEN 0 - cur.width_arg[1]
                                         ELSE cur.width_arg[1]>>
             /\ params.justify_left = (cur.flag_left \/ cur.width_arg[1] < 0)
    /\ (Finished /\ Len(va) = 2 /\ va[2].ty = "int" /\ va[2].val >= 0) =>
       \A f \in {<<>>, <<"-">>, <<"0">>, <<"-", "0">>, <<"0", "-">>, <<"#">>},
         p \in {<<>>, <<".", "0">>, <<".", "3">>}, c \in {<<"d">>, <<"i">>} :
          format = MkDirective(f, <<"*">>, p, c)
          => out = SignedField(va[2].val,
                               IF va[1].val < 0 THEN 0 - va[1].val ELSE va[1].val,
                               IF p = <<>> THEN 1 ELSE DigitValue(p[2]),
                               ("-" \in Range(f)) \/ va[1].val < 0,
                               "0" \in Range(f))
    /\ Rendered(<<"%", "*", "d">>, <<-5, 3>>) => out = <<"3", " ", " ", " ", " ">>
    /\ Rendered(<<"%", "*", "d">>, <<5, 3>>) => out = <<" ", " ", " ", " ", "3">>

C7_Witness ==
    /\ Rendered(<<"%", "*", "d">>, <<-5, 3>>)
    /\ out = <<"3", " ", " ", " ", " ">>
    /\ dirs[1].params.justify_left
    /\ dirs[1].params.minimum_width = <<5>>

\* C8: a negative argument of '.*' ends the render with the
\* invalid-precision panic at once: it is the last read of the cursor, the
\* value of the conversion is not read, nothing is written for the directive,
\* and its parameters keep no precision and the justification its flags and
\* width gave. The panic has no other cause.
C8_NegativePrecision ==
    /\ \A i \in 1..Len(reads) :
          (reads[i].role = "precision" /\ va[i].val < 0)
          => /\ status = "InvalidPrecision"
             /\ pc = "done"
             /\ i = Len(reads)
             /\ cursor = i
             /\ Len(dirs) = reads[i].dir
             /\ LET d == dirs[Len(dirs)]
                IN  /\ d.result = "InvalidPrecision"
                    /\ d.args = <<>>
                    /\ d.writes = <<>>
                    /\ Len(out) = d.out_before
                    /\ d.params.precision = <<>>
                    /\ d.params = params
                    /\ params.justify_left
                          = (cur.flag_left
                             \/ (cur.width_arg # <<>> /\ cur.width_arg[1] < 0))
    /\ status = "InvalidPrecision"
          => /\ reads # <<>>
             /\ reads[Len(reads)].role = "precision"
             /\ va[Len(va)].val < 0

C8_Witness ==
    /\ format = <<"a", "%", ".", "*", "i", "%", "p">>
    /\ status = "InvalidPrecision"
    /\ out = <<"a">>
    /\ [i \in 1..Len(va) |-> va[i].val] = <<-5>>
    /\ pos = 5

\* The offset of the first zero byte of a buffer, its length when it has none.
ZeroAt(buf) ==
    IF HasNul(buf) THEN (CHOOSE i \in 1..Len(buf) : buf[i] = 0 /\ \A j \in 1..(i - 1) : buf[j] # 0) - 1
    ELSE Len(buf)

\* Bytes that are well-formed UTF-8 of one- and two-byte characters.
WellFormed(bytes) ==
    \A i \in 1..Len(bytes) :
        /\ bytes[i] >= 192 => (i < Len(bytes) /\ bytes[i + 1] \in 128..191)
        /\ bytes[i] \in 128..191 => (i > 1 /\ bytes[i - 1] >= 192)

StrWrites(k) ==
    LET IsStr(w) == w.kind = "str" IN TextOf(SelectSeq(dirs[k].writes, IsStr))

\* A %s directive that reached print_string with precision P.
BoundedString(k) ==
    /\ k \in 1..Len(dirs)
    /\ dirs[k].conv = "s"
    /\ dirs[k].params.precision # <<>>

\* C9 as stated: a %s with precision P writes the first min(P, offset of the
\* first zero byte) bytes of the buffer and reads no byte at an offset >= P or
\* after the first zero byte. Stated here for buffers that hold valid text.
C9_Original ==
    \A k \in 1..Len(dirs) :
        LET d == dirs[k]
            buf == d.args[1].val
            P == d.params.precision[1]
            n == Min(P, ZeroAt(buf))
        IN  (BoundedString(k) /\ WellFormed(SubSeq(buf, 1, ZeroAt(buf))))
            => /\ d.result = "none"
               /\ Utf8Encode(StrWrites(k)) = SubSeq(buf, 1, n)
               /\ \A i \in d.mem : i < P /\ i <= ZeroAt(buf)
               /\ ~d.oob

\* C9, amended: a %s with precision P reads exactly the offsets up to the
\* first zero byte and below P, none outside the buffer; when the first
\* min(P, offset of the first zero byte) bytes are valid UTF-8 it writes
\* exactly these bytes, and when they are not (P cuts a character in two) it
\* panics and writes nothing. "%.3s" writes "hel" of "hello", and all of an
\* unterminated "abc" without reading a fourth byte.
C9_BoundedString ==
    /\ \A k \in 1..Len(dirs) :
          LET d == dirs[k]
              buf == d.args[1].val
              P == d.params.precision[1]
              n == Min(P, ZeroAt(buf))
          IN  BoundedString(k)
              => /\ d.mem = 0..Min(P - 1, ZeroAt(buf))
                 /\ \A i \in d.mem : i < Len(buf)
                 /\ ~d.oob
                 /\ IF WellFormed(SubSeq(buf, 1, n))
                    THEN /\ d.result = "none"
                         /\ Utf8Encode(StrWrites(k)) = SubSeq(buf, 1, n)
                         /\ Landed(k)
                    ELSE /\ d.result = "InvalidUtf8"
                         /\ status = "InvalidUtf8"
                         /\ d.writes = <<>>
                         /\ Len(out) = d.out_before
    /\ Rendered(<<"%", ".", "3", "s">>, <<<<104, 101, 108, 108, 111, 0>>>>)
          => out = <<"h", "e", "l">>
    /\ Rendered(<<"%", ".", "3", "s">>, <<<<97, 98, 99>>>>)
          => out = <<"a", "b", "c">> /\ dirs[1].mem = {0, 1, 2}

C9_Witness ==
    /\ Rendered(<<"%", ".", "3", "s">>, <<<<97, 98, 99>>>>)
    /\ out = <<"a", "b", "c">>
    /\ dirs[1].mem = {0, 1, 2}

KnownLetters ==
    {"d", "i", "u", "o", "x", "X", "c", "s", "p", "n", "h", "l", "j", "z", "t", "L",
     "f", "F", "e", "E", "a", "A", "g", "G"}

MalformedStatus == {"FormatEndedAfterPercent", "UnknownSpecifier"}

\* The one-directive format texts without a valid conversion letter: the text
\* ends after the flags, width and precision, or the letter is 'y'.
LetterlessDirectives ==
    {MkDirective(f, w, p, c) :
        f \in FlagStrs, w \in WidthStrs, p \in PrecStrs, c \in {<<>>, <<"y">>}}

\* C10 as stated: a directive without a valid conversion letter (the text
\* ends after '%' and any flags, width and precision, or the letter is 'y')
\* ends the render with a malformed-format panic and writes nothing.
C10_Original ==
    (pc = "done" /\ format \in LetterlessDirectives)
    => status \in MalformedStatus /\ out = <<>>

\* C10, amended: such a directive never renders and is never copied to the
\* output: the render panics, with "ended after %" when the text ends and
\* with "unknown specifier" for a character outside the known letters, unless
\* a negative '.*' argument of that directive has already ended the render
\* with the invalid-precision panic. Nothing is written and no value is read
\* for the directive.
C10_MalformedDirective ==
    /\ (pc = "done" /\ format \in LetterlessDirectives)
          => /\ out = <<>>
             /\ IF StarPrecision(format) /\ va[Len(va)].val < 0
                THEN status = "InvalidPrecision"
                ELSE status = (IF format[Len(format)] = "y" THEN "UnknownSpecifier"
                               ELSE "FormatEndedAfterPercent")
    /\ \A k \in 1..Len(dirs) :
          LET d == dirs[k]
          IN  (d.result # "InvalidPrecision" /\ d.conv \notin KnownLetters)
              => /\ d.result = (IF d.conv = NoChar THEN "FormatEndedAfterPercent"
                                ELSE "UnknownSpecifier")
                 /\ status = d.result
                 /\ pc = "done"
                 /\ k = Len(dirs)
                 /\ d.args = <<>>
                 /\ d.writes = <<>>
                 /\ Len(out) = d.out_before
    /\ status \in MalformedStatus
          => /\ dirs # <<>>
             /\ dirs[Len(dirs)].conv \notin KnownLetters

C10_Witness ==
    /\ format = <<"a", "%", "y", "b">>
    /\ status = "UnknownSpecifier"
    /\ out = <<"a">>
    /\ cursor = 0
    /\ pos = 4

\* The panic each rejected letter ends the render with.
UnsupportedPanic(c) ==
    CASE c = "n" -> "TodoBytesWritten"
      [] c \in {"h", "l", "j", "z", "t", "L"} -> "TodoFormatModifier"
      [] OTHER -> "FloatNotSupported"

UnsupportedStatus == {"TodoBytesWritten", "TodoFormatModifier", "FloatNotSupported"}

\* C11: when the conversion letter of a directive is n, a length modifier
\* (h l j z t L) or a floating-point letter (f F e E a A g G), the render
\* ends there with the panic of its group -- "bytes written", "format
\* modifier" or "formatter not supported" -- none of which is a panic of a
\* malformed format text; the letter reads no value from the cursor (the
\* only reads of the directive are those of its '*' width and precision) and
\* nothing is written for the directive. These panics have no other cause.
C11_UnsupportedConversion ==
    /\ \A k \in 1..Len(dirs) :
          LET d == dirs[k]
          IN  d.conv \in UnsupportedLetters
              => /\ d.result = UnsupportedPanic(d.conv)
                 /\ d.result \notin MalformedStatus
                 /\ status = d.result
                 /\ pc = "done"
                 /\ k = Len(dirs)
                 /\ d.args = <<>>
                 /\ d.writes = <<>>
                 /\ Len(out) = d.out_before
                 /\ \A i \in 1..Len(reads) :
                       reads[i].dir = k => reads[i].role \in {"width", "precision"}
                 /\ cursor = Len(d.width_arg) + Len(d.precision_arg)
                                + Cardinality({i \in 1..Len(reads) : reads[i].dir < k})
    /\ status \in UnsupportedStatus
          => /\ dirs # <<>>
             /\ dirs[Len(dirs)].conv \in UnsupportedLetters
    /\ UnsupportedStatus \cap MalformedStatus = {}

C11_Witness ==
    /\ format = <<"%", "*", ".", "*", "G">>
    /\ status = "FloatNotSupported"
    /\ [i \in 1..Len(va) |-> va[i].val] = <<5, 3>>
    /\ cursor = 2
    /\ out = <<>>
    /\ pos = 6

IntegerLetters == {"d", "i", "u", "o", "x", "X"}

\* An integer conversion that was dispatched and rendered.
IntegerDirective(k) == Dispatched(k) /\ dirs[k].conv \in IntegerLetters

DigitWrites(k) ==
    LET IsDigits(w) == w.kind = "digits" IN TextOf(SelectSeq(dirs[k].writes, IsDigits))

Radix(conv) == CASE conv = "o" -> 8 [] conv \in {"x", "X"} -> 16 [] OTHER -> 10

\* C12 as stated: an integer conversion writes no digit exactly when it is
\* the octal conversion of 0 with the explicit precision 0; in every other
\* case at least one digit is written from the value.
C12_Original ==
    \A k \in 1..Len(dirs) :
        IntegerDirective(k)
        => ((DigitWrites(k) = <<>>)
               <=> (/\ dirs[k].conv = "o"
                    /\ dirs[k].args[1].val = 0
                    /\ dirs[k].params.precision = <<0>>))

\* C12, amended: an integer conversion writes no digit from the value
\* exactly when it is the octal conversion of 0 with precision 0, or with the
\* '#' flag and a precision of at most 1 (1 being the default): under '#'
\* the octal prefix "0" stands for one digit of the precision, and it is then
\* all that is written besides padding. In every other case the digits of
\* the magnitude are written, at least one of them ("%.0x" and "%.0d" of 0
\* write "0"), zero-extended to the precision (one less under '#' for octal).
C12_OctalZero ==
    /\ \A k \in 1..Len(dirs) :
          LET d == dirs[k]
              v == unsigned_abs(d.args[1].val)
              P == unwrap_or(d.params.precision, 1)
              sharp == "#" \in Range(Segment(d))
              prefixed == d.conv = "o" /\ sharp
              NotPad(w) == w.kind # "pad"
              none == d.conv = "o" /\ v = 0 /\ (P = 0 \/ (sharp /\ P = 1))
          IN  IntegerDirective(k)
              => /\ (DigitWrites(k) = <<>>) <=> none
                 /\ (none /\ sharp) => TextOf(SelectSeq(d.writes, NotPad)) = <<"0">>
                 /\ (none /\ ~sharp) => TextOf(SelectSeq(d.writes, NotPad)) = <<>>
                 /\ ~none =>
                       DigitWrites(k)
                         = AtLeastDigits(Numeral(v, Radix(d.conv),
                                                 IF d.conv = "X" THEN UpperDigits
                                                 ELSE LowerDigits),
                                         IF prefixed THEN P - 1 ELSE P)
                 /\ Landed(k)
    /\ Rendered(<<"%", ".", "0", "o">>, <<0>>) => out = <<>>
    /\ Rendered(<<"%", "#", ".", "0", "o">>, <<0>>) => out = <<"0">>
    /\ Rendered(<<"%", "#", "o">>, <<0>>) => out = <<"0">>
    /\ Rendered(<<"%", "#", ".", "1", "o">>, <<0>>) => out = <<"0">>
    /\ Rendered(<<"%", ".", "1", "o">>, <<0>>) => out = <<"0">>
    /\ Rendered(<<"%", ".", "0", "x">>, <<0>>) => out = <<"0">>
    /\ Rendered(<<"%", ".", "0", "u">>, <<0>>) => out = <<"0">>
    /\ Rendered(<<"%", ".", "0", "d">>, <<0>>) => out = <<"0">>

C12_Witness ==
    /\ Rendered(<<"%", "5", ".", "0", "o">>, <<0>>)
    /\ dirs[1].params.precision = <<0>>
    /\ DigitWrites(1) = <<>>
    /\ out = <<" ", " ", " ", " ">>

\* C13: a %s conversion with minimum width W writes the string padded to W
\* columns (counted in bytes, as the renderer counts them) with spaces and
\* nothing else, before the string, or after it when '-' is set or the
\* dynamic width is negative; so the '0' flag changes nothing.
C13_SpacePadding ==
    \A k \in 1..Len(dirs) :
        LET d == dirs[k]
            string == StrWrites(k)
            pad == Rep(" ", saturating_sub(d.params.minimum_width[1],
                                           Len(Utf8Encode(string))))
        IN  (Dispatched(k) /\ d.conv = "s" /\ d.params.minimum_width # <<>>)
            => Text(k) = (IF d.params.justify_left THEN string \o pad ELSE pad \o string)

\* The {:p} text of the addresses the inputs use.
PointerRepr(addr) ==
    CASE addr = 0 -> <<"0", "x", "0">>
      [] addr = 4096 -> <<"0", "x", "1", "0", "0", "0">>

\* C14: a c or p conversion, whatever its flags, width and precision, reads
\* exactly one value after the '*' width and '.*' precision of the directive
\* (a byte for c, an address for p), writes no padding, and writes exactly
\* the one character of that byte for c and exactly the pointer
\* representation of the address for p.
C14_CharPointerUnpadded ==
    \A k \in 1..Len(dirs) :
        LET d == dirs[k]
        IN  d.conv \in {"c", "p"}
            => /\ Len(d.args) = 1
               /\ d.args[1].ty = (IF d.conv = "c" THEN "char" ELSE "addr")
               /\ ReadsOf(k) = ExpectedReads(d)
               /\ \A i \in 1..Len(d.writes) : d.writes[i].kind # "pad"
               /\ d.result = "none"
               /\ d.conv = "c" =>
                     /\ Len(Text(k)) = 1
                     /\ d.args[1].val >= 0 => Text(k) = <<Chr(d.args[1].val)>>
               /\ d.conv = "p" => Text(k) = PointerRepr(d.args[1].val)
               /\ Landed(k)

Failed == pc = "done" /\ status # "ok"

\* How far the format text has been turned into output: up to the directive
\* being parsed, up to the directive that failed, else up to the scan.
RenderedUpTo ==
    IF pc \in {"width", "precision", "convert"} THEN cur.start
    ELSE IF Failed /\ dirs # <<>> THEN dirs[Len(dirs)].start
    ELSE pos

\* The text of format[p ..] up to RenderedUpTo: literal characters as they
\* are, "%%" as '%', and each directive as the text it rendered; k counts the
\* directives.
RECURSIVE RenderedText(_, _)
RenderedText(p, k) ==
    IF p >= RenderedUpTo THEN <<>>
    ELSE IF k <= Len(dirs) /\ dirs[k].start = p
    THEN Text(k) \o RenderedText(dirs[k].stop, k + 1)
    ELSE IF format[p] = "%" THEN <<"%">> \o RenderedText(p + 2, k)
    ELSE <<format[p]>> \o RenderedText(p + 1, k)

\* C15 as stated: a render ends either well, the sink holding the full
\* rendered text, or in failure, the sink holding nothing the call wrote.
C15_Original ==
    pc = "done"
    => /\ Finished => (RenderedUpTo = Len(format) + 1 /\ out = RenderedText(1, 1))
       /\ ~Finished => out = <<>>

\* C15, amended: nothing is rolled back. At every point the sink holds
\* the text rendered so far; a render that returns holds the full rendered
\* text, and one that ends in a panic (malformed or unsupported directive,
\* negative precision, invalid encoding, byte out of range) holds the literal
\* text and the output of the directives before the failing directive, and
\* nothing of the failing directive.
C15_PartialOutput ==
    /\ out = RenderedText(1, 1)
    /\ Finished => RenderedUpTo = Len(format) + 1
    /\ Failed
          => /\ dirs # <<>>
             /\ dirs[Len(dirs)].result = status
             /\ dirs[Len(dirs)].writes = <<>>
             /\ Len(out) = dirs[Len(dirs)].out_before
             /\ \A k \in 1..(Len(dirs) - 1) : Dispatched(k) /\ Landed(k)

C15_Witness ==
    /\ format = <<"%", "u", "%", "y", "%", "p">>
    /\ status = "UnknownSpecifier"
    /\ out = <<"2", "5", "5">>
    /\ pos = 5

WriteKinds == {"literal", "pad", "sign", "prefix", "digits", "str", "char", "ptr"}

\* C16: on a sink that refuses a write, the render returns an error with
\* that write: exactly one write is tried beyond the accepted ones and none
\* after it, the cursor stands where it stood when the write was refused (no
\* argument is read afterwards), the output holds what was accepted before,
\* and the render takes no further step -- whether the refused write is a
\* literal character, a padding character, a sign, a prefix or the digits.
\* Without a refused write no such error is returned.
C16_SinkFailure ==
    /\ sink.limit # <<>> => sink.written <= sink.limit[1]
    /\ sink.tried = sink.written + (IF sink.failed # <<>> THEN 1 ELSE 0)
    /\ (status = "SinkError") <=> (sink.failed # <<>>)
    /\ sink.failed # <<>>
          => /\ pc = "done"
             /\ sink.written = sink.limit[1]
             /\ sink.failed[1].kind \in WriteKinds
             /\ cursor = sink.failed[1].cursor
             /\ Len(reads) = sink.failed[1].cursor
             /\ Len(out) = sink.failed[1].out
             /\ ~ENABLED Next
             /\ sink.failed[1].kind # "literal"
                   => /\ dirs # <<>>
                      /\ dirs[Len(dirs)].result = "SinkError"
                      /\ Len(out) = dirs[Len(dirs)].out_before + Len(Text(Len(dirs)))

C16_Witness ==
    /\ format = <<"%", "+", "5", "d">>
    /\ status = "SinkError"
    /\ sink.limit = <<3>>
    /\ sink.failed[1].kind = "sign"
    /\ [i \in 1..Len(va) |-> va[i].val] = <<5>>
    /\ out = <<" ", " ", " ">>
    /\ cursor = 1

\* C17: set_os_services_implementation panics when it is called again: no
\* call entered after a registration has completed returns normally.
C17_PanicsOnSecondCall ==
    \A r \in log.returned : r.after => r.outcome = "panicked"

\* C18: the implementation is registered at most once, under every
\* interleaving of the callers: one thread at most runs the closure, the Once
\* completes exactly when the first registration does and then holds the
\* implementation of that registration, whatever calls come later or run
\* beside it; current_os_services_implementation returns None as long as no
\* registration has completed and that one implementation ever after, so no
\* two reads see different implementations.
C18_RegisteredOnce ==
    /\ log.registrations <= 1
    /\ Cardinality({t \in Threads : thr[t].pc \in {"write", "complete"}}) <= 1
    /\ (once.status = "Complete") <=> (log.registrations = 1)
    /\ (log.first = <<>>) <=> (log.registrations = 0)
    /\ once.status = "Complete" => once.data = log.first
    /\ get = log.first
    /\ \A s \in log.seen : s.value = s.registered /\ s.value \in {<<>>, log.first}
    /\ \A s1, s2 \in log.seen :
          (s1.value # <<>> /\ s2.value # <<>>) => s1.value = s2.value

C18_Witness ==
    /\ log.first = <<"A">>
    /\ once = [status |-> "Complete", data |-> <<"A">>]
    /\ log.seen = {[value |-> <<>>, registered |-> <<>>],
                    [value |-> <<"A">>, registered |-> <<"A">>]}
    /\ Returned("B", FALSE) \in log.returned
    /\ Returned("B", TRUE) \in log.returned
    /\ thr[1].pc = "idle" /\ thr[2].pc = "exchange"

\* The flag characters of a directive: the run of flags after its '%'.
FlagsOf(d) == {format[i] : i \in (d.start + 1)..(FlagsEnd(d.start + 1) - 1)}

\* Whether a directive is left-justified: by '-' or by a negative '*' width.
LeftJustified(d) == "-" \in FlagsOf(d) \/ (d.width_arg # <<>> /\ d.width_arg[1] < 0)

\* The place of a write in the order of a field: leading padding, sign or
\* prefix, digits, trailing padding.
Place(w, left) ==
    CASE w.kind = "pad" -> (IF left THEN 3 ELSE 0)
      [] w.kind \in {"sign", "prefix"} -> 1
      [] OTHER -> 2

\* C19: an integer conversion (d i u o x X) makes its writes in the order
\* leading padding, sign or alternate-form prefix, digits, trailing padding;
\* the padding leads unless the field is left-justified and trails when it
\* is, and every padding character is '0' under the '0' flag and a space
\* otherwise. A signed conversion writes at most one sign and no prefix, an
\* unsigned one the prefix under '#' and no sign. So "%05d" of -5 is
\* "000-5", "%#08x" of 255 is "00000xff" and "%-05d" of 5 is "50000".
C19_WriteOrder ==
    /\ \A k \in 1..Len(dirs) :
          LET d == dirs[k]
              ws == d.writes
              left == LeftJustified(d)
              pad_char == IF "0" \in FlagsOf(d) THEN "0" ELSE " "
              OfKind(kind) == {i \in 1..Len(ws) : ws[i].kind = kind}
          IN  IntegerDirective(k)
              => /\ \A i, j \in 1..Len(ws) : i < j => Place(ws[i], left) <= Place(ws[j], left)
                 /\ \A i \in OfKind("pad") : ws[i].text = <<pad_char>>
                 /\ \A i \in 1..Len(ws) : ws[i].kind \in {"pad", "sign", "prefix", "digits"}
                 /\ Cardinality(OfKind("sign") \cup OfKind("prefix")) <= 1
                 /\ d.conv \in {"d", "i"} => OfKind("prefix") = {}
                 /\ d.conv \in {"u", "o", "x", "X"}
                       => /\ OfKind("sign") = {}
                          /\ (OfKind("prefix") # {}) <=> ("#" \in FlagsOf(d))
                 /\ Landed(k)
    /\ Rendered(<<"%", "0", "5", "d">>, <<-5>>) => out = <<"0", "0", "0", "-", "5">>
    /\ Rendered(<<"%", "#", "0", "8", "x">>, <<255>>)
          => out = <<"0", "0", "0", "0", "0", "x", "f", "f">>
    /\ Rendered(<<"%", "-", "0", "5", "d">>, <<5>>) => out = <<"5", "0", "0", "0", "0">>
    /\ Rendered(<<"%", "0", "-", "5", "d">>, <<-5>>) => out = <<"-", "5", "0", "0", "0">>
    /\ Rendered(<<"%", "5", "d">>, <<-5>>) => out = <<" ", " ", " ", "-", "5">>

C19_Witness ==
    /\ Rendered(<<"%", "0", "5", "d">>, <<-5>>)
    /\ out = <<"0", "0", "0", "-", "5">>
    /\ [i \in 1..Len(dirs[1].writes) |-> dirs[1].writes[i].kind]
         = <<"pad", "pad", "pad", "sign", "digits">>

\* C20: an integer conversion (d i u o x X) with minimum width W writes
\* max(W, n) characters, n being the characters it writes that are not
\* padding (sign, prefix and digits): never fewer than W, and no padding
\* once these fill W columns.
C20_FieldWidth ==
    \A k \in 1..Len(dirs) :
        LET d == dirs[k]
            NotPad(w) == w.kind # "pad"
        IN  (IntegerDirective(k) /\ d.params.minimum_width # <<>>)
            => Len(Text(k)) = Max(d.params.minimum_width[1],
                                  Len(TextOf(SelectSeq(d.writes, NotPad))))

\* C21: a forwarding callback entered while no registration has completed
\* panics and calls no method of any implementation; one entered after a
\* registration has completed never panics for lack of an implementation,
\* and unless it stopped on its own arguments it calls its method on the
\* registered implementation.
C21_CallbackNeedsRegistration ==
    \A c \in Range(log.call) :
        /\ c.registered = <<>> =>
               c.outcome = "panicked" /\ c.method = <<>>
        /\ c.registered # <<>> =>
               /\ c.cause # "NoImplementation"
               /\ c.cause = "" =>
                      /\ c.outcome = "returned"
                      /\ c.method = <<[impl |-> c.registered[1],
                                       name |-> Method(c.callback)]>>
               /\ (c.callback # "AcpiOsVprintf" \/ c.utf8) => c.cause = ""

\* One thread was stopped by a callback that found no implementation, and
\* a call of AcpiOsVprintf made by another thread after the registration
\* was forwarded to the print method.
C21_Witness ==
    /\ \E t \in Threads : thr[t].pc = "NoImplementation"
    /\ \E c \in Range(log.call) :
          /\ c.registered # <<>>
          /\ c.callback = "AcpiOsVprintf"
          /\ c.outcome = "returned"
          /\ c.method # <<>>

\* The one-directive format texts whose '%' is followed by at least one
\* flag, width or precision character and then by a second '%'.
InnerPercentDirectives ==
    {MkDirective(f, w, p, <<"%">>) : f \in FlagStrs, w \in WidthStrs, p \in PrecStrs}
        \ {<<"%", "%">>}

\* The number of '*' in a format text.
Stars(fmt) == Cardinality({i \in 1..Len(fmt) : fmt[i] = "*"})

\* C23 as stated: a '%' that follows the introducing '%' after at least one
\* flag, width or precision character ends the render with the
\* malformed-format panic, and no '%' is written.
C23_Original ==
    (pc = "done" /\ format \in InnerPercentDirectives)
    => status \in MalformedStatus /\ out = <<>>

\* C23, amended: only the '%' right after the introducing '%' is a literal
\* percent. A '%' reached after a flag, width or precision character is
\* taken for a conversion letter nobody knows: the render panics with
\* "unknown specifier", writes nothing for the directive and reads no value
\* for it, unless a negative '.*' argument of that directive has already
\* ended the render with the invalid-precision panic.
C23_InnerPercent ==
    /\ (pc = "done" /\ format \in InnerPercentDirectives)
          => /\ out = <<>>
             /\ cursor = Stars(format)
             /\ status = (IF StarPrecision(format) /\ va[Len(va)].val < 0
                          THEN "InvalidPrecision" ELSE "UnknownSpecifier")
    /\ (pc = "done" /\ format = <<"%", "%">>)
          => Finished /\ out = <<"%">> /\ dirs = <<>> /\ cursor = 0
    /\ \A k \in 1..Len(dirs) :
          LET d == dirs[k]
          IN  d.conv = "%"
              => /\ d.stop - d.start >= 3
                 /\ format[d.stop - 1] = "%"
                 /\ d.result = "UnknownSpecifier"
                 /\ status = d.result
                 /\ pc = "done"
                 /\ k = Len(dirs)
                 /\ d.writes = <<>>
                 /\ Len(out) = d.out_before
                 /\ ReadsOf(k) = ExpectedReads(d)

C23_Witness ==
    /\ format = <<"a", "%", "5", "%", "b">>
    /\ pc = "done"
    /\ status = "UnknownSpecifier"
    /\ out = <<"a">>
    /\ dirs[1].conv = "%"
    /\ dirs[1].params.minimum_width = <<5>>

\* The argument values a render read, in the order of its reads.
ValuesRead(rs) == [i \in 1..Len(rs) |-> va[rs[i].slot]]

\* C22: a converter can be rendered again and again. A render leaves the
\* converter's own cursor where it was, every render starts its copy of the
\* cursor there, and a render that returns has written the text and read
\* the slots, types and values that every earlier render of the converter
\* wrote and read; while it runs, what it has written and read so far is
\* the beginning of what they wrote and read.
C22_RepeatableRender ==
    /\ self_args = 0
    /\ cursor = self_args + Len(reads)
    /\ \A n \in 1..Len(rendered) :
          LET r == rendered[n]
          IN  /\ Len(out) <= Len(r.out) /\ out = SubSeq(r.out, 1, Len(out))
              /\ Len(reads) <= Len(r.reads) /\ reads = SubSeq(r.reads, 1, Len(reads))
              /\ status \in {"running", "ok"}
              /\ (pc = "done")
                    => /\ Finished
                       /\ out = r.out
                       /\ reads = r.reads
                       /\ ValuesRead(reads) = ValuesRead(r.reads)
                       /\ dirs = r.dirs
                       /\ cursor = r.cursor

\* "%*c%*.*x%%5" rendered twice: both renders read the same five slots and
\* wrote the same text.
C22_Witness ==
    /\ format = <<"%", "*", "c", "%", "*", ".", "*", "x", "%", "%", "5">>
    /\ Len(rendered) = 1
    /\ pc = "done"
    /\ Finished
    /\ Len(reads) = 5
    /\ reads = rendered[1].reads
    /\ out = rendered[1].out
    /\ Len(out) > 2

=============================================================================
